---------------------------- MODULE Spec2Model ----------------------------
(* A model of rltf.monitoring.Monitor (src/rltf/monitoring/monitor.py):    *)
(* the gym wrapper that tracks the episode life cycle of the wrapped       *)
(* environment, delegates statistics to a StatsRecorder and keeps one      *)
(* gym VideoRecorder per episode.                                          *)
(*                                                                         *)
(* Every method of the Monitor is an operator from a "world" record to a   *)
(* world record; a world holds the Monitor's fields (m), the StatsRecorder *)
(* (sr), the number of open VideoRecorder objects (open), the wrapped      *)
(* environment (env), the manifest file (disk) and, for the call in        *)
(* progress, the collaborator calls made (calls), the exception raised     *)
(* (exc) and the value returned (val).  A raised exception skips the rest  *)
(* of the method, as in Python.  The variable last keeps what the latest   *)
(* call did; ctor_video_callable keeps the argument the Monitor was built  *)
(* with.                                                                   *)
EXTENDS Integers, Sequences, FiniteSets, TLC

VARIABLES phase, ctor_video_callable, m, sr, env, disk, open, max_open, last

vars == <<phase, ctor_video_callable, m, sr, env, disk, open, max_open, last>>

-----------------------------------------------------------------------------
(* Bounds of the model and the inputs drawn by the actions.                *)

MaxEnvSteps == 2
MaxEnvResets == 2

VideoPeriod == 1000

Modes == {"t", "e"}
ModeArgs == {"t", "e", "x"}
VideoCallableArgs == {"None", "False", "always", "noncallable"}
EpIds == {0, 1, VideoPeriod}
Actions == {"a", "b"}
Observations == {"o1", "o2"}
Rewards == {0, 1}
Infos == {"info"}
PyBools == {"True", "False"}

(* The arguments a getter is called with; "default" is a call without one. *)
GetterArgs == {"default", "t", "e", "x"}

-----------------------------------------------------------------------------
(* Python control flow: run g only when f raised nothing.                  *)

Raised(w) == w.exc # "None"

Call(w, name) == [w EXCEPT !.calls = Append(@, name)]

Raise(w, e) == [w EXCEPT !.exc = e]

Return(w, v) == IF Raised(w) THEN w ELSE [w EXCEPT !.val = v]

-----------------------------------------------------------------------------
(* The wrapped environment: it counts the calls it receives, keeps the     *)
(* argument of the latest one (arg) and what it answered (out), the result *)
(* r chosen by the caller of the model.                                    *)

env_step(w, action, r) ==
    [Call(w, "env.step") EXCEPT !.env.steps = @ + 1,
                                !.env.arg = action,
                                !.env.out = <<r.obs, r.reward, r.done, r.info>>]

env_reset(w, obs) ==
    [Call(w, "env.reset") EXCEPT !.env.resets = @ + 1,
                                 !.env.arg = "",
                                 !.env.out = <<obs>>]

-----------------------------------------------------------------------------
(* StatsRecorder (rltf.monitoring.StatsRecorder).                          *)

NewStatsRecorder ==
    [mode |-> "None", ep_id |-> 0,
     train_steps |-> 0, eval_steps |-> 0,
     train_ep_rews |-> <<>>, eval_ep_rews |-> <<>>,
     train_ep_lens |-> <<>>, eval_ep_lens |-> <<>>,
     ep_rew |-> 0, ep_len |-> 0, closed |-> FALSE]

sr_before_step(w, action) ==
    Call(w, "stats_recorder.before_step")

sr_after_step(w, obs, reward, done) ==
    LET w1 == Call(w, "stats_recorder.after_step")
        t == w.sr.mode = "t"
        rew == w.sr.ep_rew + reward
        len == w.sr.ep_len + 1
        w2 == [w1 EXCEPT !.sr.train_steps = IF t THEN @ + 1 ELSE @,
                         !.sr.eval_steps = IF t THEN @ ELSE @ + 1,
                         !.sr.ep_rew = rew,
                         !.sr.ep_len = len]
    IN  IF done # "True" THEN w2
        ELSE [w2 EXCEPT !.sr.train_ep_rews = IF t THEN Append(@, rew) ELSE @,
                        !.sr.train_ep_lens = IF t THEN Append(@, len) ELSE @,
                        !.sr.eval_ep_rews = IF t THEN @ ELSE Append(@, rew),
                        !.sr.eval_ep_lens = IF t THEN @ ELSE Append(@, len)]

sr_before_reset(w) ==
    Call(w, "stats_recorder.before_reset")

sr_after_reset(w, obs, ep) ==
    [Call(w, "stats_recorder.after_reset") EXCEPT
        !.sr.ep_id = ep, !.sr.ep_rew = 0, !.sr.ep_len = 0]

sr_save(w) == Call(w, "stats_recorder.save")

sr_close(w) == [Call(w, "stats_recorder.close") EXCEPT !.sr.closed = TRUE]

sr_get_episode_id(w) == w.sr.ep_id

-----------------------------------------------------------------------------
(* gym's VideoRecorder, as far as the Monitor uses it.  The Monitor holds  *)
(* at most one recorder object (self.video_recorder); the recorders it no  *)
(* longer refers to are only counted: open is the number of recorders      *)
(* created and not yet closed, max_open the largest value open ever had.   *)

NoneRecorder ==
    [none |-> TRUE, ep_id |-> 0, enabled |-> FALSE, broken |-> FALSE,
     closed |-> FALSE]

functional(vr) == vr.enabled /\ ~vr.broken

path(vr) == vr.ep_id

VideoRecorder(w, ep_id, enabled) ==
    LET vr == [none |-> FALSE, ep_id |-> ep_id, enabled |-> enabled,
               broken |-> FALSE, closed |-> FALSE]
        n == w.open + 1
    IN  [Call(w, "VideoRecorder") EXCEPT
            !.m.video_recorder = vr,
            !.open = n,
            !.max_open = IF n > @ THEN n ELSE @]

vr_capture_frame(w, frame_ok) ==
    LET w1 == Call(w, "video_recorder.capture_frame")
    IN  IF ~functional(w.m.video_recorder) \/ frame_ok THEN w1
        ELSE [w1 EXCEPT !.m.video_recorder.broken = TRUE]

vr_close(w) ==
    [Call(w, "video_recorder.close") EXCEPT
        !.m.video_recorder.closed = TRUE,
        !.open = IF w.m.video_recorder.closed THEN @ ELSE @ - 1]

-----------------------------------------------------------------------------
(* Monitor.                                                                *)

(* _get_video_callable taking False for None.                              *)
_get_video_callable_false_as_none(w, video_callable) ==
    IF video_callable \in {"None", "False"}
    THEN [w EXCEPT !.m.video_callable = "every1000"]
    ELSE IF video_callable = "noncallable" THEN Raise(w, "Error")
    ELSE [w EXCEPT !.m.video_callable = video_callable]

(* Monitor._get_video_callable: the recording schedule.                    *)
_get_video_callable(w, video_callable) ==
    IF video_callable = "None" THEN [w EXCEPT !.m.video_callable = "every1000"]
    ELSE IF video_callable = "False" THEN [w EXCEPT !.m.video_callable = "never"]
    ELSE IF video_callable = "noncallable" THEN Raise(w, "Error")
    ELSE [w EXCEPT !.m.video_callable = video_callable]

(* Calling self.video_callable(e_id): the two lambdas of                   *)
(* _get_video_callable and a function a user may pass.                     *)
video_callable_call(vc, e_id) ==
    CASE vc = "every1000" -> e_id % VideoPeriod = 0
      [] vc = "never" -> FALSE
      [] vc = "always" -> TRUE

(* The setter without the assignment to the stats recorder.                *)
mode_setter_monitor_only(w, mode) ==
    IF mode \notin {"t", "e"} THEN Raise(w, "Error")
    ELSE [w EXCEPT !.m.mode = mode]

(* The setter of the property Monitor.mode.                                *)
mode_setter(w, mode) ==
    IF mode \notin {"t", "e"} THEN Raise(w, "Error")
    ELSE [w EXCEPT !.m.mode = mode, !.sr.mode = mode]

(* Monitor.__init__.                                                       *)
__init__(w, video_callable, mode) ==
    LET w1 == [w EXCEPT !.m.enabled = FALSE, !.m.videos = <<>>,
                        !.m.mode = "None", !.m.done = "None",
                        !.m.env_started = FALSE]
        w2 == _get_video_callable(w1, video_callable)
        w3 == IF Raised(w2) THEN w2
              ELSE [w2 EXCEPT !.sr = NewStatsRecorder,
                              !.m.video_recorder = NoneRecorder]
        w4 == IF Raised(w3) THEN w3 ELSE mode_setter(w3, mode)
    IN  IF Raised(w4) THEN w4 ELSE [w4 EXCEPT !.m.enabled = TRUE]

(* Monitor._close_video_recorder.                                          *)
_close_video_recorder(w) ==
    LET w1 == vr_close(w)
    IN  IF functional(w1.m.video_recorder)
        THEN [w1 EXCEPT !.m.videos = Append(@, path(w1.m.video_recorder))]
        ELSE w1

(* Monitor.get_episode_id.                                                 *)
get_episode_id(w) == sr_get_episode_id(w)

(* reset_video_recorder without closing the recorder it replaces.          *)
reset_video_recorder_no_close(w, frame_ok) ==
    LET ep_id == get_episode_id(w)
        w2 == VideoRecorder(w, ep_id,
                            video_callable_call(w.m.video_callable, ep_id))
    IN  vr_capture_frame(w2, frame_ok)

(* Monitor.reset_video_recorder.                                           *)
reset_video_recorder(w, frame_ok) ==
    LET w1 == IF ~w.m.video_recorder.none THEN _close_video_recorder(w) ELSE w
        ep_id == get_episode_id(w1)
        w2 == VideoRecorder(w1, ep_id,
                            video_callable_call(w1.m.video_callable, ep_id))
    IN  vr_capture_frame(w2, frame_ok)

(* _before_step without the check of env_started.                          *)
_before_step_no_started_check(w, action) ==
    IF ~w.m.enabled THEN w
    ELSE IF w.m.done = "True" THEN Raise(w, "ResetNeeded")
    ELSE sr_before_step(w, action)

(* _before_step without the check of done.                                 *)
_before_step_no_done_check(w, action) ==
    IF ~w.m.enabled THEN w
    ELSE IF ~w.m.env_started THEN Raise(w, "ResetNeeded")
    ELSE sr_before_step(w, action)

(* _before_step without the early return of a disabled Monitor.            *)
_before_step_no_enabled_check(w, action) ==
    IF w.m.done = "True" THEN Raise(w, "ResetNeeded")
    ELSE IF ~w.m.env_started THEN Raise(w, "ResetNeeded")
    ELSE sr_before_step(w, action)

(* Monitor._before_step.                                                   *)
_before_step(w, action) ==
    IF ~w.m.enabled THEN w
    ELSE IF w.m.done = "True" THEN Raise(w, "ResetNeeded")
    ELSE IF ~w.m.env_started THEN Raise(w, "ResetNeeded")
    ELSE sr_before_step(w, action)

(* _after_step returning self.done as it was before the step.              *)
_after_step_returns_old_done(w, obs, reward, done, frame_ok) ==
    IF ~w.m.enabled THEN [w EXCEPT !.val = <<done>>]
    ELSE LET w1 == sr_after_step(w, obs, reward, done)
             w2 == vr_capture_frame(w1, frame_ok)
         IN  [w2 EXCEPT !.m.done = done, !.val = <<w.m.done>>]

(* Monitor._after_step; the value it returns is left in val.               *)
_after_step(w, obs, reward, done, frame_ok) ==
    IF ~w.m.enabled THEN [w EXCEPT !.val = <<done>>]
    ELSE LET w1 == sr_after_step(w, obs, reward, done)
             w2 == vr_capture_frame(w1, frame_ok)
         IN  [w2 EXCEPT !.m.done = done, !.val = <<done>>]

(* Monitor._before_reset.                                                  *)
_before_reset(w) ==
    IF ~w.m.enabled THEN w ELSE sr_before_reset(w)

(* _after_reset starting the new video before stats_recorder.after_reset.  *)
_after_reset_video_first(w, obs, ep, frame_ok) ==
    IF ~w.m.enabled THEN w
    ELSE LET w1 == [w EXCEPT !.m.env_started = TRUE, !.m.done = "False"]
             w2 == reset_video_recorder(w1, frame_ok)
         IN  sr_after_reset(w2, obs, ep)

(* _after_reset without the reset of done.                                 *)
_after_reset_keeps_done(w, obs, ep, frame_ok) ==
    IF ~w.m.enabled THEN w
    ELSE LET w1 == sr_after_reset(w, obs, ep)
             w2 == [w1 EXCEPT !.m.env_started = TRUE]
         IN  reset_video_recorder(w2, frame_ok)

(* Monitor._after_reset.                                                   *)
_after_reset(w, obs, ep, frame_ok) ==
    IF ~w.m.enabled THEN w
    ELSE LET w1 == sr_after_reset(w, obs, ep)
             w2 == [w1 EXCEPT !.m.env_started = TRUE, !.m.done = "False"]
         IN  reset_video_recorder(w2, frame_ok)

(* Monitor.step: r is what the wrapped env.step(action) returns.           *)
step(w, action, r, frame_ok) ==
    LET w1 == _before_step(w, action)
        w2 == IF Raised(w1) THEN w1 ELSE env_step(w1, action, r)
        w3 == IF Raised(w2) THEN w2
              ELSE _after_step(w2, r.obs, r.reward, r.done, frame_ok)
    IN  IF Raised(w3) THEN w3
        ELSE Return(w3, <<r.obs, r.reward, w3.val[1], r.info>>)

(* Monitor.reset: obs is what the wrapped env.reset() returns, ep the      *)
(* episode id the stats recorder reports from after_reset on.              *)
reset(w, obs, ep, frame_ok) ==
    LET w1 == _before_reset(w)
        w2 == IF Raised(w1) THEN w1 ELSE env_reset(w1, obs)
        w3 == IF Raised(w2) THEN w2 ELSE _after_reset(w2, obs, ep, frame_ok)
    IN  Return(w3, <<obs>>)

(* Monitor.save: the stats, then the manifest with the list of videos.     *)
save(w) ==
    LET w1 == sr_save(w)
    IN  [Call(w1, "manifest.write") EXCEPT
            !.disk = [written |-> TRUE, videos |-> w1.m.videos]]

(* Monitor.close.                                                          *)
close(w) ==
    IF ~w.m.enabled THEN w
    ELSE LET w1 == save(w)
             w2 == sr_close(w1)
             w3 == IF ~w2.m.video_recorder.none THEN _close_video_recorder(w2)
                   ELSE w2
         IN  [w3 EXCEPT !.m.enabled = FALSE]

(* The parameter mode of the getters: mode='t' when the caller gives none. *)
DefaultMode == "t"

Bind(arg) == IF arg = "default" THEN DefaultMode ELSE arg

(* get_total_steps selecting by the Monitor's mode when asked for 't'.     *)
get_total_steps_by_current_mode(w, mode) ==
    IF mode = "t"
    THEN Return(w, <<IF w.m.mode = "t" THEN w.sr.train_steps
                     ELSE w.sr.eval_steps>>)
    ELSE IF mode = "e" THEN Return(w, <<w.sr.eval_steps>>)
    ELSE Raise(w, "Error")

(* Monitor.get_total_steps.                                                *)
get_total_steps(w, mode) ==
    IF mode = "t" THEN Return(w, <<w.sr.train_steps>>)
    ELSE IF mode = "e" THEN Return(w, <<w.sr.eval_steps>>)
    ELSE Raise(w, "Error")

(* Monitor.get_episode_rewards.                                            *)
get_episode_rewards(w, mode) ==
    IF mode = "t" THEN Return(w, <<w.sr.train_ep_rews>>)
    ELSE IF mode = "e" THEN Return(w, <<w.sr.eval_ep_rews>>)
    ELSE Raise(w, "Error")

(* Monitor.get_episode_lens.                                               *)
get_episode_lens(w, mode) ==
    IF mode = "t" THEN Return(w, <<w.sr.train_ep_lens>>)
    ELSE IF mode = "e" THEN Return(w, <<w.sr.eval_ep_lens>>)
    ELSE Raise(w, "Error")

-----------------------------------------------------------------------------
(* The state machine: one action per call a client makes on the Monitor.   *)

NoMonitor ==
    [enabled |-> FALSE, videos |-> <<>>, mode |-> "None", done |-> "None",
     env_started |-> FALSE, video_callable |-> "None",
     video_recorder |-> NoneRecorder]

NoCall == [op |-> "none", arg |-> "", calls |-> <<>>, exc |-> "None", val |-> <<>>]

Init ==
    /\ phase = "new"
    /\ ctor_video_callable = "None"
    /\ m = NoMonitor
    /\ sr = NewStatsRecorder
    /\ open = 0
    /\ env = [steps |-> 0, resets |-> 0, arg |-> "", out |-> <<>>]
    /\ disk = [written |-> FALSE, videos |-> <<>>]
    /\ max_open = 0
    /\ last = NoCall

(* The world a call starts from: nothing called, raised or returned yet.   *)
World ==
    [m |-> m, sr |-> sr, open |-> open, env |-> env, disk |-> disk,
     max_open |-> max_open, calls |-> <<>>, exc |-> "None", val |-> <<>>]

(* The world a call ends in becomes the next state.                        *)
Commit(w, op, arg) ==
    /\ m' = w.m
    /\ sr' = w.sr
    /\ open' = w.open
    /\ env' = w.env
    /\ disk' = w.disk
    /\ max_open' = w.max_open
    /\ last' = [op |-> op, arg |-> arg, calls |-> w.calls, exc |-> w.exc,
                val |-> w.val]

Construct(VideoCallables) ==
    /\ phase = "new"
    /\ \E vc \in VideoCallables, mode \in ModeArgs :
          LET w == __init__(World, vc, mode)
          IN  /\ Commit(w, "__init__", vc)
              /\ ctor_video_callable' = vc
              /\ phase' = IF Raised(w) THEN "failed" ELSE "live"

Step(As, Rs, FrameOks) ==
    /\ phase = "live"
    /\ env.steps < MaxEnvSteps
    /\ \E action \in As, obs \in Observations, reward \in Rs,
          done \in PyBools, info \in Infos, frame_ok \in FrameOks :
          Commit(step(World, action,
                      [obs |-> obs, reward |-> reward, done |-> done,
                       info |-> info], frame_ok),
                 "step", action)
    /\ UNCHANGED <<phase, ctor_video_callable>>

Reset(Eps, FrameOks) ==
    /\ phase = "live"
    /\ env.resets < MaxEnvResets
    /\ \E obs \in Observations, ep \in Eps, frame_ok \in FrameOks :
          Commit(reset(World, obs, ep, frame_ok), "reset", "")
    /\ UNCHANGED <<phase, ctor_video_callable>>

SetMode ==
    /\ phase = "live"
    /\ \E mode \in ModeArgs : Commit(mode_setter(World, mode), "mode", mode)
    /\ UNCHANGED <<phase, ctor_video_callable>>

Close ==
    /\ phase = "live"
    /\ Commit(close(World), "close", "")
    /\ UNCHANGED <<phase, ctor_video_callable>>

GetTotalSteps ==
    /\ phase = "live"
    /\ \E arg \in GetterArgs :
          Commit(get_total_steps(World, Bind(arg)), "get_total_steps", arg)
    /\ UNCHANGED <<phase, ctor_video_callable>>

GetEpisodeRewards ==
    /\ phase = "live"
    /\ \E arg \in GetterArgs :
          Commit(get_episode_rewards(World, Bind(arg)), "get_episode_rewards", arg)
    /\ UNCHANGED <<phase, ctor_video_callable>>

GetEpisodeLens ==
    /\ phase = "live"
    /\ \E arg \in GetterArgs :
          Commit(get_episode_lens(World, Bind(arg)), "get_episode_lens", arg)
    /\ UNCHANGED <<phase, ctor_video_callable>>

(* The episode life cycle: every construction, every episode id and both   *)
(* outcomes of rendering a frame; the action and the reward are one value  *)
(* each, as no field of the Monitor depends on them.                       *)
Next ==
    \/ Construct(VideoCallableArgs)
    \/ Step({"a"}, {1}, BOOLEAN)
    \/ Reset(EpIds, BOOLEAN)
    \/ SetMode
    \/ Close

Spec == Init /\ [][Next]_vars

(* The data passed through: every action, every reward and the three       *)
(* getters, on a Monitor built                                             *)
(* with video_callable=False, whose recorders are never enabled.           *)
NextStats ==
    \/ Construct({"False"})
    \/ Step(Actions, Rewards, {TRUE})
    \/ Reset({0}, {TRUE})
    \/ SetMode
    \/ Close
    \/ GetTotalSteps
    \/ GetEpisodeRewards
    \/ GetEpisodeLens

SpecStats == Init /\ [][NextStats]_vars

-----------------------------------------------------------------------------
(* Properties.                                                             *)

Live == phase = "live"

(* The Monitor is constructed and close() has not run.                     *)
Active == Live /\ m.enabled

(* The Monitor is constructed and close() has run.                         *)
Closed == Live /\ ~m.enabled

(* The latest call on the wrapped environment was a step that returned     *)
(* done=True.                                                              *)
EnvDone == Len(env.out) = 4 /\ env.out[3] = "True"

StepCalls ==
    <<"stats_recorder.before_step", "env.step", "stats_recorder.after_step",
      "video_recorder.capture_frame">>

ResetCalls(had_recorder) ==
    <<"stats_recorder.before_reset", "env.reset", "stats_recorder.after_reset">>
    \o (IF had_recorder THEN <<"video_recorder.close">> ELSE <<>>)
    \o <<"VideoRecorder", "video_recorder.capture_frame">>

(* The state a rejected call leaves alone.                                 *)
Untouched == m' = m /\ sr' = sr /\ env' = env /\ open' = open /\ disk' = disk

(* C1: on an enabled Monitor on which no reset() has completed, step()     *)
(* raises ResetNeeded before it calls anything: neither env.step nor       *)
(* stats_recorder.before_step is called, and env_started, done,            *)
(* video_recorder and videos keep their values.                            *)
C1_StepBeforeResetRaises ==
    [][(Active /\ env.resets = 0 /\ last'.op = "step")
        => (last'.exc = "ResetNeeded" /\ last'.calls = <<>> /\ Untouched)]_vars

C1_Witness ==
    /\ Active
    /\ env.resets = 0
    /\ last.op = "step"
    /\ last.exc = "ResetNeeded"

(* done is False after a reset() and otherwise what the latest step of    *)
(* the wrapped environment returned.                                       *)
C2_DoneTracksEnv ==
    Active /\ env.out # <<>>
        => m.done = (IF Len(env.out) = 1 THEN "False" ELSE env.out[3])

(* C2: on an enabled Monitor, after a step() that returned done=True every *)
(* step() raises ResetNeeded without calling env.step or                   *)
(* stats_recorder.before_step until a reset() completes; done is False     *)
(* after a reset() and otherwise the done of the latest successful step(). *)
C2_NoStepBeyondDone ==
    /\ []C2_DoneTracksEnv
    /\ [][(Active /\ EnvDone /\ last'.op = "step")
           => (last'.exc = "ResetNeeded" /\ last'.calls = <<>> /\ Untouched)]_vars

C2_Witness ==
    /\ Active
    /\ EnvDone
    /\ env.resets >= 1
    /\ last.op = "step"
    /\ last.exc = "ResetNeeded"

(* C3: the manifest that close() writes on an enabled Monitor lists every  *)
(* video in self.videos, the video of the recorder that close() closes     *)
(* included.                                                               *)
C3_CloseManifestListsAllVideos ==
    (Live /\ last.op = "close" /\ last.calls # <<>>)
        => (disk.written /\ disk.videos = m.videos)

(* The schedule each constructor argument stands for.                      *)
Schedule(arg, ep_id) ==
    CASE arg = "None" -> ep_id % VideoPeriod = 0
      [] arg = "False" -> FALSE
      [] arg = "always" -> TRUE

(* C4: the recorder a reset() opens is enabled exactly when the schedule   *)
(* the Monitor was built with says so for the stats recorder's episode id: *)
(* None records the multiples of 1000, False records nothing, a function   *)
(* decides by itself, and any other value makes the construction raise.    *)
C4_VideoSchedule ==
    /\ (Active /\ last.op = "reset")
          => /\ ~m.video_recorder.none
             /\ m.video_recorder.ep_id = sr.ep_id
             /\ m.video_recorder.enabled
                   <=> Schedule(ctor_video_callable, sr.ep_id)
    /\ (ctor_video_callable = "noncallable" /\ phase # "new")
          => (phase = "failed" /\ last.exc = "Error")

C4_Witness ==
    /\ Active
    /\ last.op = "reset"
    /\ ctor_video_callable = "None"
    /\ sr.ep_id = VideoPeriod
    /\ m.video_recorder.enabled

(* The Monitor and its stats recorder are in the same valid mode.          *)
C5_ModesAgree == Live => (m.mode \in Modes /\ sr.mode = m.mode)

(* C5: on a constructed Monitor the mode is 't' or 'e' and equals the      *)
(* stats recorder's mode; assigning 't' or 'e' sets both, assigning        *)
(* anything else raises Error and changes neither.                         *)
C5_ModeSetter ==
    /\ []C5_ModesAgree
    /\ [][(Live /\ last'.op = "mode")
           => IF last'.arg \in Modes
              THEN /\ last'.exc = "None"
                   /\ m'.mode = last'.arg
                   /\ sr'.mode = last'.arg
              ELSE last'.exc = "Error" /\ Untouched]_vars

C5_Witness ==
    /\ Live
    /\ last.op = "mode"
    /\ last.arg = "e"
    /\ m.mode = "e"
    /\ sr.train_steps > 0

(* C6: after close(), step() and reset() only call the wrapped environment *)
(* and return its result: no stats recorder or video recorder call, no     *)
(* change of the Monitor, no ResetNeeded.                                  *)
C6_ClosedMonitorForwards ==
    [][(Closed /\ last'.op \in {"step", "reset"})
        => /\ last'.exc = "None"
           /\ last'.calls = <<IF last'.op = "step" THEN "env.step"
                              ELSE "env.reset">>
           /\ last'.val = env'.out
           /\ m' = m /\ sr' = sr /\ open' = open /\ disk' = disk]_vars

C6_Witness ==
    /\ Closed
    /\ m.done = "True"
    /\ last.op = "step"
    /\ last.exc = "None"

(* What a getter returns for each argument.                                *)
Getters == {"get_total_steps", "get_episode_rewards", "get_episode_lens"}

Selected(op, mode) ==
    CASE op = "get_total_steps" ->
            IF mode = "t" THEN sr.train_steps ELSE sr.eval_steps
      [] op = "get_episode_rewards" ->
            IF mode = "t" THEN sr.train_ep_rews ELSE sr.eval_ep_rews
      [] op = "get_episode_lens" ->
            IF mode = "t" THEN sr.train_ep_lens ELSE sr.eval_ep_lens

C7_GetterResult ==
    (Live /\ last.op \in Getters)
        => IF last.arg \in {"default", "t"}
           THEN last.exc = "None" /\ last.val = <<Selected(last.op, "t")>>
           ELSE IF last.arg = "e"
           THEN last.exc = "None" /\ last.val = <<Selected(last.op, "e")>>
           ELSE last.exc = "Error"

(* C7: get_total_steps, get_episode_rewards and get_episode_lens return   *)
(* the stats recorder's training value for 't' and its evaluation value    *)
(* for 'e' whatever the Monitor's mode is, raise Error for any other       *)
(* argument, and change nothing.                                           *)
C7_GettersSelectByArgument ==
    /\ []C7_GetterResult
    /\ [][(Live /\ last'.op \in Getters) => Untouched]_vars

C7_Witness ==
    /\ Live
    /\ last.op = "get_total_steps"
    /\ last.arg = "default"
    /\ m.mode = "e"
    /\ last.val = <<sr.train_steps>>
    /\ sr.train_steps # sr.eval_steps

(* C8: on an enabled Monitor a successful step() calls                     *)
(* stats_recorder.before_step, env.step, stats_recorder.after_step and     *)
(* video_recorder.capture_frame, once each and in this order; a reset()    *)
(* calls stats_recorder.before_reset, env.reset, stats_recorder.after_reset *)
(* and only then closes the old recorder and opens the new one, whose      *)
(* episode id is the one the stats recorder reports after after_reset.     *)
C8_CallOrder ==
    /\ (Active /\ last.op = "step" /\ last.exc = "None")
          => last.calls = StepCalls
    /\ (Active /\ last.op = "reset")
          => /\ last.exc = "None"
             /\ last.calls = ResetCalls(env.resets > 1)
             /\ m.video_recorder.ep_id = sr.ep_id

C8_Witness ==
    /\ Active
    /\ last.op = "reset"
    /\ env.resets = 2
    /\ last.calls = ResetCalls(TRUE)
    /\ m.video_recorder.ep_id = VideoPeriod

(* C9: an enabled Monitor accepts reset() in every state, a reset() sets   *)
(* env_started to True and done to False, and the step() that follows a    *)
(* reset() is not rejected with ResetNeeded.                               *)
C9_ResetAlwaysAccepted ==
    [][/\ (Active /\ last'.op = "reset")
            => (last'.exc = "None" /\ m'.env_started /\ m'.done = "False")
       /\ (Active /\ last.op = "reset" /\ last'.op = "step")
            => (last'.exc = "None" /\ "env.step" \in
                   {last'.calls[i] : i \in DOMAIN last'.calls})]_vars

C9_Witness ==
    /\ Active
    /\ last.op = "step"
    /\ last.exc = "None"
    /\ env.resets = 2
    /\ env.steps = 2
    /\ Len(sr.train_ep_lens) + Len(sr.eval_ep_lens) = 1
    /\ m.done = "False"

(* How often a call occurs in a sequence of calls.                         *)
Count(calls, name) == Cardinality({i \in DOMAIN calls : calls[i] = name})

(* C10: at most one video recorder of the Monitor is open at any time; a   *)
(* reset() on an enabled Monitor leaves exactly one open, the new one,     *)
(* created once and asked for a frame at once; after close() none is open. *)
C10_OneOpenRecorder ==
    /\ max_open <= 1
    /\ open <= 1
    /\ (Active /\ last.op = "reset")
          => /\ open = 1
             /\ ~m.video_recorder.none /\ ~m.video_recorder.closed
             /\ Count(last.calls, "VideoRecorder") = 1
             /\ Len(last.calls) >= 2
             /\ last.calls[Len(last.calls) - 1] = "VideoRecorder"
             /\ last.calls[Len(last.calls)] = "video_recorder.capture_frame"
    /\ Closed => open = 0

C10_Witness ==
    /\ Closed
    /\ last.op = "close"
    /\ env.resets = 2
    /\ m.video_recorder.closed
    /\ max_open = 1

(* What step() and reset() return on an enabled Monitor is what the        *)
(* wrapped environment returned.                                           *)
C11_ReturnsEnvResult ==
    /\ (Active /\ last'.op = "step" /\ last'.exc # "ResetNeeded")
          => (last'.exc = "None" /\ Len(last'.val) = 4 /\ last'.val = env'.out)
    /\ (Active /\ last'.op = "reset")
          => (last'.exc = "None" /\ Len(last'.val) = 1 /\ last'.val = env'.out)

(* The call reaches the wrapped environment once, with its argument.       *)
C11_Forwarded ==
    IF last'.op = "step"
    THEN /\ env'.steps = env.steps + 1
         /\ env'.resets = env.resets
         /\ env'.arg = last'.arg
         /\ Count(last'.calls, "env.step") = 1
         /\ Count(last'.calls, "env.reset") = 0
    ELSE /\ env'.resets = env.resets + 1
         /\ env'.steps = env.steps
         /\ Count(last'.calls, "env.reset") = 1
         /\ Count(last'.calls, "env.step") = 0

(* C11 as stated: on an enabled Monitor step() and reset() return what the *)
(* wrapped environment returned, and the wrapped environment receives      *)
(* every step and reset call the client makes, as it would without the     *)
(* Monitor.                                                                *)
C11_Transparent ==
    [][/\ C11_ReturnsEnvResult
       /\ (Live /\ last'.op \in {"step", "reset"}) => C11_Forwarded]_vars

(* C11 as amended: on an enabled Monitor step() and reset() return what    *)
(* the wrapped environment returned; the wrapped environment receives      *)
(* every reset call and every step call that is not rejected with          *)
(* ResetNeeded, once and with its argument, and receives nothing of a      *)
(* rejected step call.                                                     *)
C11_TransparentUnlessRejected ==
    [][/\ C11_ReturnsEnvResult
       /\ (Live /\ last'.op \in {"step", "reset"})
             => IF last'.exc = "ResetNeeded"
                THEN last'.op = "step" /\ Active /\ env' = env
                     /\ last'.calls = <<>>
                ELSE C11_Forwarded]_vars

C11_Witness ==
    /\ Active
    /\ last.op = "step"
    /\ last.arg = "b"
    /\ env.arg = "b"
    /\ last.exc = "None"
    /\ last.val = env.out
    /\ last.val[2] = 1
    /\ last.val[3] = "True"

=============================================================================
